---- MODULE Spec2Model ----
(***************************************************************************)
(* Model of gather_agent.py: the cached bearer credential (auth.json), the *)
(* challenge-response authentication against the service, and the API      *)
(* helpers that attach the token.  One agent process executes one command  *)
(* at a time; a second process sharing the files is modelled for the       *)
(* race on auth.json.                                                      *)
(***************************************************************************)
EXTENDS Integers, Sequences, FiniteSets, TLC

\* ------------------------------------------------------------------ sizes
Margin   == 120     \* seconds added to time.time() in the expiry test
KeyLen   == 32      \* bytes of private.key that are used
MaxTicks == 1       \* how far the clock advances
MaxRuns  == 2       \* command executions per process
MaxNonce == 1       \* distinct nonces the service issues

Procs == {1, 2}

\* ------------------------------------------------------------ JSON values
\* The payload segment of a token read as JSON: the claims.
ClaimsInvalid  == [json |-> "invalid", exp |-> "absent", val |-> 0]
ClaimsArray    == [json |-> "array",   exp |-> "absent", val |-> 0]
ClaimsNoExp    == [json |-> "object",  exp |-> "absent", val |-> 0]
ClaimsExpText  == [json |-> "object",  exp |-> "text",   val |-> 0]
ClaimsExp(e)   == [json |-> "object",  exp |-> "number", val |-> e]

\* A token string: nseg dot-separated segments; the second one (the payload)
\* has plen characters, nonstd of them outside the standard base64 alphabet
\* ('-' and '_' of base64url).  url is what the payload holds read as
\* base64url (the JWT reading), std what it holds read with the standard
\* alphabet after the other characters are dropped.
Tok(i, n, l, u, cu, cs) ==
    [id |-> i, nseg |-> n, plen |-> l, nonstd |-> u, url |-> cu, std |-> cs]

EmptyString == Tok(0, 1, 0, 0, ClaimsInvalid, ClaimsInvalid)

\* A JSON document: the body of the authenticate response, the content of
\* auth.json.  tok tells whether the "token" member is absent, not a string,
\* or the string token; more tells whether other members are present.
Doc(t, k, tk, m) == [t |-> t, tok |-> k, token |-> tk, more |-> m]
Credential(tk, m) == Doc("object", "str", tk, m)
ObjNoToken        == Doc("object", "absent", EmptyString, TRUE)
ObjTokenNumber    == Doc("object", "nonstr", EmptyString, FALSE)
JsonArray         == Doc("array", "absent", EmptyString, FALSE)

\* ------------------------------------------------------------------ files
\* auth.json: missing, present but not openable, or a file holding the text
\* of doc of which "none", "part" or "all" has reached the disk ("junk": not
\* JSON text at all).  by is the process that wrote it (0: written before).
File(k, d, w, b) == [kind |-> k, doc |-> d, written |-> w, by |-> b]
Missing      == File("missing", JsonArray, "none", 0)
Unreadable   == File("unreadable", JsonArray, "all", 0)
Junk         == File("file", JsonArray, "junk", 0)
Stored(d)    == File("file", d, "all", 0)

\* private.key holds len bytes; public.pem holds the text pem: 1 a PEM-encoded
\* public key, 2 a text that is no key, 0 bytes that are no text.  exists is
\* FALSE when open() raises: no such file, or no permission to read it.
KeyFile(e, n) == [exists |-> e, len |-> n]
PemFile(e, k) == [exists |-> e, pem |-> k]

\* -------------------------------------------------------------- exceptions
Exc(t, a, s) == [type |-> t, at |-> a, status |-> s]
NoExc        == Exc("none", "none", 0)

\* ------------------------------------------------------------- HTTP bodies
\* A response body: text that is not JSON, a challenge object (nonce > 0 a
\* base64 nonce, "no_nonce" without the member, "bad_nonce" with one that
\* does not decode), or a JSON document.
Body(k, n, d)  == [kind |-> k, nonce |-> n, doc |-> d]
BodyNotJson    == Body("not_json", 0, JsonArray)
BodyNonce(n)   == Body("nonce", n, JsonArray)
BodyNoNonce    == Body("no_nonce", 0, JsonArray)
BodyBadNonce   == Body("bad_nonce", 0, JsonArray)
BodyDoc(d)     == Body("doc", 0, d)
Response(s, b) == [status |-> s, body |-> b]
\* No response at all: requests raises ConnectionError.
NoResponse     == Response(0, BodyNotJson)

\* ------------------------------------------------------- library functions
\* RaiseForStatus that lets client errors pass.
RaiseForServerError(status) == status >= 500 /\ status < 600

\* requests.Response.raise_for_status raises for 4xx and 5xx only.
RaiseForStatus(status) == status >= 400 /\ status < 600

\* requests.Response.ok: raise_for_status would not raise.
Ok(status) == ~RaiseForStatus(status)

\* JsonDump that writes the token member only.
JsonDumpTokenOnly(doc) == Doc(doc.t, doc.tok, doc.token, FALSE)

\* json.dump(auth, f, indent=2): the text written denotes the document member
\* by member, the token member and the others.
JsonDump(doc) == Doc(doc.t, doc.tok, doc.token, doc.more)

\* json.load(f) on auth.json: the document when the whole text is there.
JsonLoad(f) ==
    IF f.written = "all" THEN [ok |-> TRUE, doc |-> f.doc]
    ELSE [ok |-> FALSE, doc |-> JsonArray]

\* "=" * (4 - len(payload) % 4): the number of '=' appended.
PadLen(n) == 4 - (n % 4)

\* base64.b64decode(s) without validation: characters outside the standard
\* alphabet are discarded, and the data characters left must form whole
\* quads, or end in 2 characters and at least 2 pads, or 3 and at least 1.
B64DecodeOk(len, nonstd, pads) ==
    LET q == (len - nonstd) % 4
    IN  q = 0 \/ (q = 2 /\ pads >= 2) \/ (q = 3 /\ pads >= 1)

\* token.split(".")[1], the padding, b64decode and json.loads: the claims,
\* or ClaimsInvalid when one of them raises.
DecodeClaims(tok) ==
    IF tok.nseg < 2 THEN ClaimsInvalid
    ELSE IF ~B64DecodeOk(tok.plen, tok.nonstd, PadLen(tok.plen)) THEN ClaimsInvalid
    ELSE tok.std

\* NotExpired with the boundary admitted (>= for >).
NotExpiredAtBoundary(claims, t) ==
    /\ claims.json = "object"
    /\ claims.exp # "text"
    /\ (IF claims.exp = "absent" THEN 0 ELSE claims.val) >= t + Margin

\* claims.get("exp", 0) > time.time() + 120, FALSE when it raises (claims
\* not an object, exp not a number).
NotExpired(claims, t) ==
    /\ claims.json = "object"
    /\ claims.exp # "text"
    /\ (IF claims.exp = "absent" THEN 0 ELSE claims.val) > t + Margin

\* auth.get("token", "")
TokenGet(doc) == IF doc.tok = "absent" THEN EmptyString ELSE doc.token

\* The try block of get_token on the loaded document: TRUE when the cached
\* token is returned.
CacheValid(doc, t) ==
    /\ doc.tok # "nonstr"
    /\ NotExpired(DecodeClaims(TokenGet(doc)), t)

\* LoadKeys that reads private.key only.
LoadKeysPrivateOnly(priv, pub) ==
    IF ~priv.exists THEN Exc("OSError", "load_keys", 0)
    ELSE IF (IF priv.len < KeyLen THEN priv.len ELSE KeyLen) # KeyLen
         THEN Exc("ValueError", "load_keys", 0)
    ELSE NoExc

\* load_keys: the exception it raises (OSError: FileNotFoundError or
\* PermissionError), NoExc when both files load.  The text of public.pem is
\* not looked at.
LoadKeys(priv, pub) ==
    IF ~priv.exists THEN Exc("OSError", "load_keys", 0)
    ELSE IF (IF priv.len < KeyLen THEN priv.len ELSE KeyLen) # KeyLen
         THEN Exc("ValueError", "load_keys", 0)
    ELSE IF ~pub.exists THEN Exc("OSError", "load_keys", 0)
    ELSE IF pub.pem = 0 THEN Exc("UnicodeDecodeError", "load_keys", 0)
    ELSE NoExc

\* ------------------------------------------------------------------ inputs
\* exp values around the margin: expired at time 0 by the boundary, valid at
\* time 0 only, valid at every time the clock reaches.
ExpBoundary == Margin
ExpShort    == Margin + 1
ExpFar      == Margin + MaxTicks + 1

\* Tokens found in auth.json before the first command (id 1).
CachedTokens ==
    {Tok(1, 3, 24, 0, ClaimsExp(e), ClaimsExp(e)) : e \in {ExpBoundary, ExpShort, ExpFar}}
    \cup {Tok(1, 3, l, 0, ClaimsExp(ExpFar), ClaimsExp(ExpFar)) : l \in {26, 27}}
    \cup {Tok(1, 3, l, 1, ClaimsExp(ExpFar), ClaimsInvalid) : l \in {25, 27}}
    \cup {Tok(1, 3, 28, 4, ClaimsInvalid, ClaimsExp(ExpFar))}
    \cup {Tok(1, 3, 24, 0, c, c) : c \in {ClaimsNoExp, ClaimsExpText, ClaimsArray, ClaimsInvalid}}
    \cup {Tok(1, 1, 0, 0, ClaimsInvalid, ClaimsInvalid),
          Tok(1, 3, 25, 0, ClaimsInvalid, ClaimsInvalid)}

\* Tokens the service mints (id 2).
MintTokens ==
    {Tok(2, 3, 24, 0, ClaimsExp(e), ClaimsExp(e)) : e \in {ExpShort, ExpFar}}

AuthFiles ==
    {Missing, Unreadable, Junk, Stored(JsonArray), Stored(ObjNoToken), Stored(ObjTokenNumber)}
    \cup {Stored(Credential(t, TRUE)) : t \in CachedTokens}

PrivateKeyFiles ==
    {KeyFile(FALSE, 0), KeyFile(TRUE, KeyLen - 1), KeyFile(TRUE, KeyLen), KeyFile(TRUE, 2 * KeyLen)}
PublicKeyFiles == {PemFile(FALSE, 0), PemFile(TRUE, 0), PemFile(TRUE, 1), PemFile(TRUE, 2)}

Commands == {"auth", "create_channel", "send_message", "get_channels",
             "get_messages", "get_balance", "me", "bogus"}

\* ------------------------------------------------------------------- state
VARIABLES
    authFile,        \* ~/.gather/auth.json
    privateKeyFile,  \* ~/.gather/private.key
    publicKeyFile,   \* ~/.gather/public.pem
    now,             \* time.time()
    agents,          \* the processes that run
    service,         \* "any": the service may answer anything; "up": it accepts every request
    pc,              \* where each process is
    op,              \* the function the command called: get_token, api_get, api_post, api_put
    token,           \* the token get_token returned
    auth,            \* authenticate's local auth, the response document
    public_pem,      \* authenticate's local public_pem, the text load_keys read
    exc,             \* the exception that ended the command
    stderr,          \* what the operator has seen on stderr
    sent,            \* requests sent in this command, by endpoint
    inflight,        \* requests sent and not yet answered
    req,             \* the last request sent
    answers,         \* the responses received in this command, by endpoint
    calls,           \* calls of get_token and of authenticate in this command
    path,            \* how get_token returned: "cache" or "auth"
    seen,            \* auth.json and the time as the cache check read them
    entry,           \* auth.json when authenticate was entered
    runs,            \* commands started
    last             \* what the previous command decided and saved, while auth.json is as it left it

env   == <<authFile, privateKeyFile, publicKeyFile, now, agents, service>>
local == <<pc, op, token, auth, public_pem, exc, stderr>>
net   == <<sent, inflight, req, answers>>
hist  == <<calls, path, seen, entry, runs, last>>
vars  == <<env, local, net, hist>>

NoReq == [to |-> "none", public_key |-> 0, nonce |-> 0, bearer |-> EmptyString]
NoSent == [challenge |-> 0, authenticate |-> 0, api |-> 0]
NoAnswer == Response(-1, BodyNotJson)
NoAnswers == [challenge |-> NoAnswer, authenticate |-> NoAnswer, api |-> NoAnswer]
NoCalls == [get_token |-> 0, authenticate |-> 0, load_keys |-> 0]
NotSeen == [file |-> Missing, t |-> 0, read |-> FALSE]
\* Nothing is known of a previous command.
NoLast == [decided |-> FALSE, file |-> Missing, t |-> 0, decision |-> "none", token |-> EmptyString,
           saved |-> FALSE, body |-> JsonArray, returned |-> EmptyString,
           rejected |-> FALSE, bearer |-> EmptyString]

InitLocal ==
    /\ pc = [p \in Procs |-> "idle"]
    /\ op = [p \in Procs |-> "none"]
    /\ token = [p \in Procs |-> EmptyString]
    /\ auth = [p \in Procs |-> JsonArray]
    /\ public_pem = [p \in Procs |-> 0]
    /\ exc = [p \in Procs |-> NoExc]
    /\ stderr = [p \in Procs |-> <<>>]
    /\ sent = [p \in Procs |-> NoSent]
    /\ inflight = [p \in Procs |-> 0]
    /\ req = [p \in Procs |-> NoReq]
    /\ answers = [p \in Procs |-> NoAnswers]
    /\ calls = [p \in Procs |-> NoCalls]
    /\ path = [p \in Procs |-> "none"]
    /\ seen = [p \in Procs |-> NotSeen]
    /\ entry = [p \in Procs |-> Missing]

\* One agent process, any state of the three files.
Init ==
    /\ authFile \in AuthFiles
    /\ privateKeyFile \in PrivateKeyFiles
    /\ publicKeyFile \in PublicKeyFiles
    /\ now = 0
    /\ agents = {1}
    /\ service = "any"
    /\ InitLocal
    /\ last = NoLast
    /\ runs = [p \in Procs |-> 0]

\* ----------------------------------------------------------------- service
\* The statuses the service answers with.
Statuses == {200, 300, 403, 500}
\* The challenge endpoint's possible answers.
ChallengeResponses ==
    IF service = "up" THEN {Response(200, BodyNonce(n)) : n \in 1..MaxNonce} ELSE
    {NoResponse} \cup
    {Response(s, b) : s \in Statuses,
                      b \in {BodyNotJson, BodyNoNonce, BodyBadNonce} \cup {BodyNonce(n) : n \in 1..MaxNonce}}
\* The authenticate endpoint's possible answers.
AuthenticateResponses ==
    IF service = "up" THEN {Response(200, BodyDoc(Credential(t, TRUE))) : t \in MintTokens} ELSE
    {NoResponse} \cup
    {Response(s, b) : s \in Statuses,
                      b \in {BodyNotJson, BodyDoc(ObjNoToken), BodyDoc(JsonArray)}
                            \cup {BodyDoc(Credential(t, TRUE)) : t \in MintTokens}}
\* The answers of the API endpoints.
ApiResponses ==
    IF service = "up" THEN {Response(200, BodyDoc(JsonArray))} ELSE
    {NoResponse} \cup
    {Response(s, b) : s \in Statuses, b \in {BodyNotJson, BodyDoc(JsonArray)}}

\* ------------------------------------------------------------------ actions
Diag(w, s, b) == [what |-> w, status |-> s, body |-> b]

\* An exception nothing catches ends the command; the interpreter writes the
\* traceback, whose last line names the exception (for an HTTPError the
\* status and the URL, not the response body).
Raise(p, e, err) ==
    /\ pc' = [pc EXCEPT ![p] = "done"]
    /\ exc' = [exc EXCEPT ![p] = e]
    /\ stderr' = [stderr EXCEPT ![p] = err \o <<Diag("traceback", e.status, BodyNotJson)>>]

\* The function a command calls.
ApiOf(cmd) ==
    IF cmd = "auth" THEN "get_token"
    ELSE IF cmd \in {"create_channel", "send_message"} THEN "api_post"
    ELSE "api_get"

\* len(sys.argv) a command needs: sys.argv[2] is read by create_channel,
\* send_message and get_messages, sys.argv[3] by send_message.
ArgsNeeded(cmd) ==
    IF cmd = "send_message" THEN 4
    ELSE IF cmd \in {"create_channel", "get_messages"} THEN 3
    ELSE 2

\* __main__: the command is dispatched; the function it calls starts with
\* get_token().
Main(p) ==
    /\ p \in agents
    /\ pc[p] = "idle"
    /\ runs[p] < MaxRuns
    /\ runs' = [runs EXCEPT ![p] = @ + 1]
    /\ \E argv1 \in Commands, argc \in 1..4 :
         LET cmd == IF argc > 1 THEN argv1 ELSE "auth" IN
         IF cmd = "bogus"
         THEN /\ pc' = [pc EXCEPT ![p] = "done"]
              /\ exc' = [exc EXCEPT ![p] = Exc("SystemExit", "main", 0)]
              /\ stderr' = [stderr EXCEPT ![p] = <<Diag("unknown_command", 0, BodyNotJson)>>]
              /\ UNCHANGED <<op, calls>>
         ELSE IF argc < ArgsNeeded(cmd)
         THEN /\ Raise(p, Exc("IndexError", "main", 0), stderr[p])
              /\ UNCHANGED <<op, calls>>
         ELSE /\ pc' = [pc EXCEPT ![p] = "get_token"]
              /\ op' = [op EXCEPT ![p] = ApiOf(cmd)]
              /\ calls' = [calls EXCEPT ![p].get_token = @ + 1]
              /\ UNCHANGED <<exc, stderr>>
    /\ UNCHANGED <<env, token, auth, public_pem, net, path, seen, entry, last>>

\* api_put called by an importing program (no command reaches it).
ApiPut(p) ==
    /\ p \in agents
    /\ pc[p] = "idle"
    /\ runs[p] < MaxRuns
    /\ runs' = [runs EXCEPT ![p] = @ + 1]
    /\ pc' = [pc EXCEPT ![p] = "get_token"]
    /\ op' = [op EXCEPT ![p] = "api_put"]
    /\ calls' = [calls EXCEPT ![p].get_token = @ + 1]
    /\ UNCHANGED <<env, token, auth, public_pem, exc, stderr, net, path, seen, entry, last>>

\* get_token: os.path.exists(AUTH_FILE).
GetToken_exists(p) ==
    /\ pc[p] = "get_token"
    /\ IF authFile.kind = "missing"
       THEN /\ pc' = [pc EXCEPT ![p] = "authenticate"]
            /\ seen' = [seen EXCEPT ![p] = [file |-> authFile, t |-> now, read |-> TRUE]]
       ELSE /\ pc' = [pc EXCEPT ![p] = "open_auth"]
            /\ UNCHANGED seen
    /\ UNCHANGED <<env, op, token, auth, public_pem, exc, stderr, net, calls, path, entry, runs, last>>

\* GetToken_load that trusts the cached token in the first command only.
GetToken_load_once(p) ==
    /\ pc[p] = "open_auth"
    /\ seen' = [seen EXCEPT ![p] = [file |-> authFile, t |-> now, read |-> TRUE]]
    /\ IF authFile.kind # "file"
       THEN /\ Raise(p, Exc("OSError", "get_token", 0), stderr[p])
            /\ UNCHANGED <<token, path>>
       ELSE IF ~JsonLoad(authFile).ok
       THEN /\ Raise(p, Exc("JSONDecodeError", "get_token", 0), stderr[p])
            /\ UNCHANGED <<token, path>>
       ELSE IF JsonLoad(authFile).doc.t # "object"
       THEN /\ Raise(p, Exc("AttributeError", "get_token", 0), stderr[p])
            /\ UNCHANGED <<token, path>>
       ELSE IF CacheValid(JsonLoad(authFile).doc, now) /\ runs[p] < 2
       THEN /\ pc' = [pc EXCEPT ![p] = "got_token"]
            /\ token' = [token EXCEPT ![p] = TokenGet(JsonLoad(authFile).doc)]
            /\ path' = [path EXCEPT ![p] = "cache"]
            /\ UNCHANGED <<exc, stderr>>
       ELSE /\ pc' = [pc EXCEPT ![p] = "authenticate"]
            /\ UNCHANGED <<token, path, exc, stderr>>
    /\ UNCHANGED <<env, op, auth, public_pem, net, calls, entry, runs, last>>

\* get_token: open, json.load, auth.get and the expiry check.
GetToken_load(p) ==
    /\ pc[p] = "open_auth"
    /\ seen' = [seen EXCEPT ![p] = [file |-> authFile, t |-> now, read |-> TRUE]]
    /\ IF authFile.kind # "file"
       THEN /\ Raise(p, Exc("OSError", "get_token", 0), stderr[p])
            /\ UNCHANGED <<token, path>>
       ELSE IF ~JsonLoad(authFile).ok
       THEN /\ Raise(p, Exc("JSONDecodeError", "get_token", 0), stderr[p])
            /\ UNCHANGED <<token, path>>
       ELSE IF JsonLoad(authFile).doc.t # "object"
       THEN /\ Raise(p, Exc("AttributeError", "get_token", 0), stderr[p])
            /\ UNCHANGED <<token, path>>
       ELSE IF CacheValid(JsonLoad(authFile).doc, now)
       THEN /\ pc' = [pc EXCEPT ![p] = "got_token"]
            /\ token' = [token EXCEPT ![p] = TokenGet(JsonLoad(authFile).doc)]
            /\ path' = [path EXCEPT ![p] = "cache"]
            /\ UNCHANGED <<exc, stderr>>
       ELSE /\ pc' = [pc EXCEPT ![p] = "authenticate"]
            /\ UNCHANGED <<token, path, exc, stderr>>
    /\ UNCHANGED <<env, op, auth, public_pem, net, calls, entry, runs, last>>

\* authenticate: load_keys, then the challenge request is sent.
Authenticate_challenge(p) ==
    /\ pc[p] = "authenticate"
    /\ entry' = [entry EXCEPT ![p] = authFile]
    /\ calls' = [calls EXCEPT ![p].authenticate = @ + 1, ![p].load_keys = @ + 1]
    /\ IF LoadKeys(privateKeyFile, publicKeyFile) # NoExc
       THEN /\ Raise(p, LoadKeys(privateKeyFile, publicKeyFile), stderr[p])
            /\ UNCHANGED <<public_pem, sent, inflight, req>>
       ELSE /\ pc' = [pc EXCEPT ![p] = "challenge_wait"]
            /\ public_pem' = [public_pem EXCEPT ![p] = publicKeyFile.pem]
            /\ sent' = [sent EXCEPT ![p].challenge = @ + 1]
            /\ inflight' = [inflight EXCEPT ![p] = @ + 1]
            /\ req' = [req EXCEPT ![p] = [to |-> "challenge", public_key |-> publicKeyFile.pem,
                                          nonce |-> 0, bearer |-> EmptyString]]
            /\ UNCHANGED <<exc, stderr>>
    /\ UNCHANGED <<env, op, token, auth, answers, path, seen, runs, last>>

\* The exception the handling of the challenge response raises (raise_for_status,
\* resp.json(), challenge["nonce"], b64decode), NoExc when the nonce is signed.
ChallengeExc(r) ==
    IF r = NoResponse THEN Exc("ConnectionError", "challenge", 0)
    ELSE IF RaiseForStatus(r.status) THEN Exc("HTTPError", "challenge", r.status)
    ELSE IF r.body.kind = "not_json" THEN Exc("JSONDecodeError", "challenge", 0)
    ELSE IF r.body.kind = "no_nonce" THEN Exc("KeyError", "challenge", 0)
    ELSE IF r.body.kind = "bad_nonce" THEN Exc("binascii.Error", "challenge", 0)
    ELSE NoExc

\* Authenticate_sign that sends the challenge request again when the first
\* one fails.
Authenticate_sign_retry(p) ==
    /\ pc[p] = "challenge_wait"
    /\ \E r \in ChallengeResponses :
         /\ answers' = [answers EXCEPT ![p].challenge = r]
         /\ IF ChallengeExc(r) # NoExc /\ sent[p].challenge < 2
            THEN /\ sent' = [sent EXCEPT ![p].challenge = @ + 1]
                 /\ UNCHANGED <<pc, exc, stderr, inflight, req>>
            ELSE IF ChallengeExc(r) # NoExc
            THEN /\ Raise(p, ChallengeExc(r), stderr[p])
                 /\ inflight' = [inflight EXCEPT ![p] = @ - 1]
                 /\ UNCHANGED <<sent, req>>
            ELSE /\ pc' = [pc EXCEPT ![p] = "authenticate_wait"]
                 /\ sent' = [sent EXCEPT ![p].authenticate = @ + 1]
                 /\ inflight' = [inflight EXCEPT ![p] = @ - 1 + 1]
                 /\ req' = [req EXCEPT ![p] = [to |-> "authenticate", public_key |-> public_pem[p],
                                               nonce |-> r.body.nonce, bearer |-> EmptyString]]
                 /\ UNCHANGED <<exc, stderr>>
    /\ UNCHANGED <<env, op, token, auth, public_pem, hist>>

\* Authenticate_sign that signs an empty message instead of the nonce.
Authenticate_sign_empty(p) ==
    /\ pc[p] = "challenge_wait"
    /\ \E r \in ChallengeResponses :
         /\ answers' = [answers EXCEPT ![p].challenge = r]
         /\ IF ChallengeExc(r) # NoExc
            THEN /\ Raise(p, ChallengeExc(r), stderr[p])
                 /\ inflight' = [inflight EXCEPT ![p] = @ - 1]
                 /\ UNCHANGED <<sent, req>>
            ELSE /\ pc' = [pc EXCEPT ![p] = "authenticate_wait"]
                 /\ sent' = [sent EXCEPT ![p].authenticate = @ + 1]
                 /\ inflight' = [inflight EXCEPT ![p] = @ - 1 + 1]
                 /\ req' = [req EXCEPT ![p] = [to |-> "authenticate", public_key |-> public_pem[p],
                                               nonce |-> 0, bearer |-> EmptyString]]
                 /\ UNCHANGED <<exc, stderr>>
    /\ UNCHANGED <<env, op, token, auth, public_pem, hist>>

\* authenticate: the challenge response arrives; the nonce is signed and the
\* authenticate request is sent.
Authenticate_sign(p) ==
    /\ pc[p] = "challenge_wait"
    /\ \E r \in ChallengeResponses :
         /\ answers' = [answers EXCEPT ![p].challenge = r]
         /\ IF ChallengeExc(r) # NoExc
            THEN /\ Raise(p, ChallengeExc(r), stderr[p])
                 /\ inflight' = [inflight EXCEPT ![p] = @ - 1]
                 /\ UNCHANGED <<sent, req>>
            ELSE /\ pc' = [pc EXCEPT ![p] = "authenticate_wait"]
                 /\ sent' = [sent EXCEPT ![p].authenticate = @ + 1]
                 /\ inflight' = [inflight EXCEPT ![p] = @ - 1 + 1]
                 /\ req' = [req EXCEPT ![p] = [to |-> "authenticate", public_key |-> public_pem[p],
                                               nonce |-> r.body.nonce, bearer |-> EmptyString]]
                 /\ UNCHANGED <<exc, stderr>>
    /\ UNCHANGED <<env, op, token, auth, public_pem, hist>>

\* AuthenticateExc without raise_for_status: the body is parsed whatever the
\* status.
AuthenticateExcUnchecked(r) ==
    IF r = NoResponse THEN Exc("ConnectionError", "authenticate", 0)
    ELSE IF r.body.kind # "doc" THEN Exc("JSONDecodeError", "authenticate", 0)
    ELSE NoExc

\* The exception the handling of the authenticate response raises
\* (raise_for_status, resp.json()).
AuthenticateExc(r) ==
    IF r = NoResponse THEN Exc("ConnectionError", "authenticate", 0)
    ELSE IF RaiseForStatus(r.status) THEN Exc("HTTPError", "authenticate", r.status)
    ELSE IF r.body.kind # "doc" THEN Exc("JSONDecodeError", "authenticate", 0)
    ELSE NoExc

\* Authenticate_response that goes on to return the token without saving the
\* body.
Authenticate_response_unsaved(p) ==
    /\ pc[p] = "authenticate_wait"
    /\ inflight' = [inflight EXCEPT ![p] = @ - 1]
    /\ \E r \in AuthenticateResponses :
         /\ answers' = [answers EXCEPT ![p].authenticate = r]
         /\ IF AuthenticateExc(r) # NoExc
            THEN /\ Raise(p, AuthenticateExc(r), stderr[p])
                 /\ UNCHANGED auth
            ELSE /\ pc' = [pc EXCEPT ![p] = "auth_return"]
                 /\ auth' = [auth EXCEPT ![p] = r.body.doc]
                 /\ UNCHANGED <<exc, stderr>>
    /\ UNCHANGED <<env, op, token, public_pem, sent, req, hist>>

\* authenticate: the authenticate response arrives; auth = resp.json().
Authenticate_response(p) ==
    /\ pc[p] = "authenticate_wait"
    /\ inflight' = [inflight EXCEPT ![p] = @ - 1]
    /\ \E r \in AuthenticateResponses :
         /\ answers' = [answers EXCEPT ![p].authenticate = r]
         /\ IF AuthenticateExc(r) # NoExc
            THEN /\ Raise(p, AuthenticateExc(r), stderr[p])
                 /\ UNCHANGED auth
            ELSE /\ pc' = [pc EXCEPT ![p] = "save_open"]
                 /\ auth' = [auth EXCEPT ![p] = r.body.doc]
                 /\ UNCHANGED <<exc, stderr>>
    /\ UNCHANGED <<env, op, token, public_pem, sent, req, hist>>

\* Save_open that writes a temporary file beside auth.json, which stays as it
\* is until the text is complete.
Save_open_aside(p) ==
    /\ pc[p] = "save_open"
    /\ pc' = [pc EXCEPT ![p] = "save_dump"]
    /\ UNCHANGED <<env, op, token, auth, public_pem, exc, stderr, net, hist>>

\* authenticate: open(AUTH_FILE, "w") truncates the file.
Save_open(p) ==
    /\ pc[p] = "save_open"
    /\ pc' = [pc EXCEPT ![p] = "save_dump"]
    /\ authFile' = File("file", JsonDump(auth[p]), "none", p)
    /\ last' = NoLast
    /\ UNCHANGED <<privateKeyFile, publicKeyFile, now, agents, service, op, token, auth, public_pem, exc, stderr, net,
                   calls, path, seen, entry, runs>>

\* json.dump: a full buffer is flushed before the file is closed, so that a
\* part of the text is on disk.
Save_flush(p) ==
    /\ pc[p] = "save_dump"
    /\ authFile = File("file", JsonDump(auth[p]), "none", p)
    /\ authFile' = File("file", JsonDump(auth[p]), "part", p)
    /\ last' = NoLast
    /\ UNCHANGED <<privateKeyFile, publicKeyFile, now, agents, service, local, net, calls, path, seen, entry, runs>>

\* Closed with the text still in the buffer: the file stays as open left it.
ClosedUnflushed(f, p, doc) == {File("file", doc, "none", p)}

\* What the file holds once process p has written doc and closed it: its
\* text, or, when another process wrote a different text since p opened the
\* file, possibly a mix of the two.
Closed(f, p, doc) ==
    IF f.by # p /\ f.written \in {"part", "all"} /\ f.doc # doc
    THEN {File("file", doc, "all", p), File("file", doc, "junk", p)}
    ELSE {File("file", doc, "all", p)}

\* authenticate: the with block ends, the text is on disk.
Save_close(p) ==
    /\ pc[p] = "save_dump"
    /\ authFile' \in Closed(authFile, p, JsonDump(auth[p]))
    /\ pc' = [pc EXCEPT ![p] = "auth_return"]
    /\ last' = NoLast
    /\ UNCHANGED <<privateKeyFile, publicKeyFile, now, agents, service, op, token, auth, public_pem, exc, stderr, net,
                   calls, path, seen, entry, runs>>

\* authenticate: return auth["token"].
Authenticate_return(p) ==
    /\ pc[p] = "auth_return"
    /\ IF auth[p].t # "object"
       THEN /\ Raise(p, Exc("TypeError", "auth_token", 0), stderr[p])
            /\ UNCHANGED <<token, path>>
       ELSE IF auth[p].tok = "absent"
       THEN /\ Raise(p, Exc("KeyError", "auth_token", 0), stderr[p])
            /\ UNCHANGED <<token, path>>
       ELSE /\ pc' = [pc EXCEPT ![p] = "got_token"]
            /\ token' = [token EXCEPT ![p] = auth[p].token]
            /\ path' = [path EXCEPT ![p] = "auth"]
            /\ UNCHANGED <<exc, stderr>>
    /\ UNCHANGED <<env, op, auth, public_pem, net, calls, seen, entry, runs, last>>

\* The auth command prints the token's first characters and ends.
Main_auth(p) ==
    /\ pc[p] = "got_token"
    /\ op[p] = "get_token"
    /\ pc' = [pc EXCEPT ![p] = "done"]
    /\ UNCHANGED <<env, op, token, auth, public_pem, exc, stderr, net, hist>>

\* api_get, api_post, api_put: the request is sent with the bearer token.
Api_request(p) ==
    /\ pc[p] = "got_token"
    /\ op[p] # "get_token"
    /\ pc' = [pc EXCEPT ![p] = "api_wait"]
    /\ sent' = [sent EXCEPT ![p].api = @ + 1]
    /\ inflight' = [inflight EXCEPT ![p] = @ + 1]
    /\ req' = [req EXCEPT ![p] = [to |-> "api", public_key |-> 0, nonce |-> 0, bearer |-> token[p]]]
    /\ UNCHANGED <<env, op, token, auth, public_pem, exc, stderr, answers, hist>>

\* What api_post and api_put print for a response that is not ok; api_get
\* prints nothing.
ApiError(f, r) ==
    IF f \in {"api_post", "api_put"} /\ r # NoResponse /\ ~Ok(r.status)
    THEN <<Diag("ERROR", r.status, r.body)>>
    ELSE <<>>

\* ApiExc without raise_for_status: the body is parsed and returned whatever
\* the status.
ApiExcUnchecked(r) ==
    IF r = NoResponse THEN Exc("ConnectionError", "api", 0)
    ELSE IF r.body.kind # "doc" THEN Exc("JSONDecodeError", "api", 0)
    ELSE NoExc

\* The exception the handling of an API response raises.
ApiExc(r) ==
    IF r = NoResponse THEN Exc("ConnectionError", "api", 0)
    ELSE IF RaiseForStatus(r.status) THEN Exc("HTTPError", "api", r.status)
    ELSE IF r.body.kind # "doc" THEN Exc("JSONDecodeError", "api", 0)
    ELSE NoExc

\* Api_response that sends the request again when it is rejected.
Api_response_retry(p) ==
    /\ pc[p] = "api_wait"
    /\ \E r \in ApiResponses :
         /\ answers' = [answers EXCEPT ![p].api = r]
         /\ IF ApiExc(r) # NoExc /\ sent[p].api < 2
            THEN /\ sent' = [sent EXCEPT ![p].api = @ + 1]
                 /\ stderr' = [stderr EXCEPT ![p] = @ \o ApiError(op[p], r)]
                 /\ UNCHANGED <<pc, exc, inflight>>
            ELSE IF ApiExc(r) # NoExc
            THEN /\ Raise(p, ApiExc(r), stderr[p] \o ApiError(op[p], r))
                 /\ inflight' = [inflight EXCEPT ![p] = @ - 1]
                 /\ UNCHANGED sent
            ELSE /\ pc' = [pc EXCEPT ![p] = "done"]
                 /\ stderr' = [stderr EXCEPT ![p] = @ \o ApiError(op[p], r)]
                 /\ inflight' = [inflight EXCEPT ![p] = @ - 1]
                 /\ UNCHANGED <<exc, sent>>
    /\ UNCHANGED <<env, op, token, auth, public_pem, req, hist>>

\* Api_response that deletes auth.json when the request is rejected.
Api_response_forget(p) ==
    /\ pc[p] = "api_wait"
    /\ inflight' = [inflight EXCEPT ![p] = @ - 1]
    /\ \E r \in ApiResponses :
         /\ answers' = [answers EXCEPT ![p].api = r]
         /\ IF ApiExc(r) # NoExc
            THEN /\ Raise(p, ApiExc(r), stderr[p] \o ApiError(op[p], r))
                 /\ authFile' = IF ApiExc(r).type = "HTTPError" THEN Missing ELSE authFile
            ELSE /\ pc' = [pc EXCEPT ![p] = "done"]
                 /\ stderr' = [stderr EXCEPT ![p] = @ \o ApiError(op[p], r)]
                 /\ UNCHANGED <<exc, authFile>>
    /\ UNCHANGED <<privateKeyFile, publicKeyFile, now, agents, service,
                   op, token, auth, public_pem, sent, req, hist>>

\* api_get, api_post, api_put: the response arrives.
Api_response(p) ==
    /\ pc[p] = "api_wait"
    /\ inflight' = [inflight EXCEPT ![p] = @ - 1]
    /\ \E r \in ApiResponses :
         /\ answers' = [answers EXCEPT ![p].api = r]
         /\ IF ApiExc(r) # NoExc
            THEN Raise(p, ApiExc(r), stderr[p] \o ApiError(op[p], r))
            ELSE /\ pc' = [pc EXCEPT ![p] = "done"]
                 /\ stderr' = [stderr EXCEPT ![p] = @ \o ApiError(op[p], r)]
                 /\ UNCHANGED exc
    /\ UNCHANGED <<env, op, token, auth, public_pem, sent, req, hist>>

\* How the cache check of the command of p went: the cached token was
\* returned, authenticate was called, or the check raised.
Decision(p) ==
    IF path[p] = "cache" THEN "cache"
    ELSE IF exc[p].at = "get_token" THEN "raise"
    ELSE "authenticate"

\* What is known of the command of p when it ends: its decision, as long as
\* auth.json and the time are as the check read them; the response body
\* authenticate saved and the token it returned; the cached token an API
\* request carried that was answered 4xx or 5xx.
Remembered(p) ==
    LET checked == IF ~seen[p].read THEN last
                   ELSE IF seen[p].file = authFile /\ seen[p].t = now
                   THEN [last EXCEPT !.decided = TRUE, !.file = seen[p].file, !.t = seen[p].t,
                                     !.decision = Decision(p), !.token = token[p]]
                   ELSE [last EXCEPT !.decided = FALSE, !.file = Missing, !.t = 0,
                                     !.decision = "none", !.token = EmptyString]
        called  == IF ~seen[p].read THEN checked
                   ELSE IF path[p] = "cache" /\ exc[p].type = "HTTPError" /\ exc[p].at = "api"
                   THEN [checked EXCEPT !.rejected = TRUE, !.bearer = token[p]]
                   ELSE [checked EXCEPT !.rejected = FALSE, !.bearer = EmptyString]
    IN  IF path[p] = "auth"
        THEN [called EXCEPT !.saved = TRUE, !.body = auth[p], !.returned = token[p]]
        ELSE called

\* The process ends; the next command is a new process.
Exit(p) ==
    /\ pc[p] = "done"
    /\ pc' = [pc EXCEPT ![p] = "idle"]
    /\ op' = [op EXCEPT ![p] = "none"]
    /\ token' = [token EXCEPT ![p] = EmptyString]
    /\ auth' = [auth EXCEPT ![p] = JsonArray]
    /\ public_pem' = [public_pem EXCEPT ![p] = 0]
    /\ exc' = [exc EXCEPT ![p] = NoExc]
    /\ stderr' = [stderr EXCEPT ![p] = <<>>]
    /\ sent' = [sent EXCEPT ![p] = NoSent]
    /\ req' = [req EXCEPT ![p] = NoReq]
    /\ answers' = [answers EXCEPT ![p] = NoAnswers]
    /\ calls' = [calls EXCEPT ![p] = NoCalls]
    /\ path' = [path EXCEPT ![p] = "none"]
    /\ seen' = [seen EXCEPT ![p] = NotSeen]
    /\ entry' = [entry EXCEPT ![p] = Missing]
    /\ last' = Remembered(p)
    /\ UNCHANGED <<env, inflight, runs>>

\* Time passes.
Tick ==
    /\ now < MaxTicks
    /\ now' = now + 1
    /\ last' = [last EXCEPT !.decided = FALSE, !.file = Missing, !.t = 0,
                            !.decision = "none", !.token = EmptyString]
    /\ UNCHANGED <<authFile, privateKeyFile, publicKeyFile, agents, service, local, net,
                   calls, path, seen, entry, runs>>

\* Two agent processes share the files; the keys load, the service accepts
\* every request, and auth.json is missing or holds a credential that has
\* expired.  Each process executes its last command.
InitRace ==
    /\ authFile \in {Missing, Stored(Credential(Tok(1, 3, 24, 0, ClaimsExp(ExpBoundary), ClaimsExp(ExpBoundary)), TRUE))}
    /\ privateKeyFile = KeyFile(TRUE, KeyLen)
    /\ publicKeyFile = PemFile(TRUE, 1)
    /\ now = MaxTicks - 1
    /\ agents = Procs
    /\ service = "up"
    /\ InitLocal
    /\ last = NoLast
    /\ runs = [p \in Procs |-> MaxRuns - 1]

Step(p) ==
    \/ Main(p)
    \/ ApiPut(p)
    \/ GetToken_exists(p)
    \/ GetToken_load(p)
    \/ Authenticate_challenge(p)
    \/ Authenticate_sign(p)
    \/ Authenticate_response(p)
    \/ Save_open(p)
    \/ Save_flush(p)
    \/ Save_close(p)
    \/ Authenticate_return(p)
    \/ Main_auth(p)
    \/ Api_request(p)
    \/ Api_response(p)
    \/ Exit(p)

Next == Tick \/ \E p \in Procs : Step(p)

Spec == Init /\ [][Next]_vars

SpecRace == InitRace /\ [][Next]_vars

\* ------------------------------------------------------------------ claims
\* get_token has returned or raised in the command process p executes.
GetTokenOver(p) == seen[p].read /\ pc[p] \in {"got_token", "api_wait", "done"}

\* The claims of a token read as a JWT: the payload segment as base64url
\* without padding.
JwtClaims(tok) ==
    IF tok.nseg < 2 \/ tok.plen % 4 = 1 THEN ClaimsInvalid ELSE tok.url

\* auth.json holds a credential whose JWT claims have exp > t + 120.
JwtValid(f, t) ==
    /\ f.kind = "file" /\ f.written = "all"
    /\ f.doc.t = "object" /\ f.doc.tok = "str"
    /\ JwtClaims(f.doc.token).json = "object"
    /\ JwtClaims(f.doc.token).exp = "number"
    /\ JwtClaims(f.doc.token).val > t + Margin

\* C1: whenever the cached credential's token payload decodes to claims with
\* exp > now + 120, get_token returns exactly the cached token and sends no
\* challenge and no authenticate request.
C1_ValidCachedTokenReturned ==
    \A p \in Procs :
        (GetTokenOver(p) /\ JwtValid(seen[p].file, seen[p].t)) =>
            /\ path[p] = "cache"
            /\ token[p] = seen[p].file.doc.token
            /\ sent[p].challenge = 0 /\ sent[p].authenticate = 0

\* There is no usable cached credential: auth.json does not exist, or it
\* holds a JSON object whose token yields no claims, claims without a
\* numeric exp, or exp <= t + 120.
NoUsableCredential(f, t) ==
    \/ f.kind = "missing"
    \/ /\ f.kind = "file" /\ f.written = "all" /\ f.doc.t = "object"
       /\ \/ f.doc.tok # "str"
          \/ DecodeClaims(f.doc.token).json # "object"
          \/ DecodeClaims(f.doc.token).exp # "number"
          \/ DecodeClaims(f.doc.token).val <= t + Margin

C3_CacheCheckNeverRaises ==
    \A p \in Procs : exc[p].at # "get_token"

\* C4: when the authenticate endpoint answers with a success status and a body
\* without a token member, authenticate fails and auth.json is as it was when
\* authenticate was entered.
C4_NoTokenLeavesFile ==
    \A p \in Procs :
        (/\ pc[p] = "done"
         /\ answers[p].authenticate.status \in 200..299
         /\ answers[p].authenticate.body.kind = "doc"
         /\ answers[p].authenticate.body.doc.t = "object"
         /\ answers[p].authenticate.body.doc.tok = "absent") =>
            /\ exc[p] # NoExc
            /\ authFile = entry[p]

\* C5 as stated: when the challenge endpoint answers with a status that is not
\* 2xx, authenticate fails and auth.json is as it was.
C5_Non2xxChallengeFails ==
    \A p \in Procs :
        (answers[p].challenge.status > 0 /\ answers[p].challenge.status \notin 200..299) =>
            /\ pc[p] = "done"
            /\ exc[p].at = "challenge"
            /\ authFile = entry[p]

\* C5 amended: when the challenge endpoint answers with a 4xx or 5xx status,
\* authenticate fails and auth.json is as it was when authenticate was entered.
C5_RejectedChallengeFails ==
    \A p \in Procs :
        answers[p].challenge.status \in 400..599 =>
            /\ pc[p] = "done"
            /\ exc[p].type = "HTTPError" /\ exc[p].at = "challenge"
            /\ sent[p].authenticate = 0
            /\ authFile = entry[p]

\* C5 witness: the challenge was answered 403 while an expired credential was
\* cached, and the credential is still there.
C5_Witness ==
    \E p \in Procs :
        /\ pc[p] = "done"
        /\ answers[p].challenge.status = 403
        /\ entry[p].kind = "file" /\ entry[p].doc.tok = "str"
        /\ authFile = entry[p]

\* C6: for every request the service rejects (challenge, authenticate, API),
\* the status and the response body are written to stderr before the call fails.
C6_RejectedCallsShown ==
    \A p \in Procs :
        pc[p] = "done" =>
            \A e \in {"challenge", "authenticate", "api"} :
                answers[p][e].status >= 400 =>
                    \E i \in DOMAIN stderr[p] :
                        /\ stderr[p][i].what = "ERROR"
                        /\ stderr[p][i].status = answers[p][e].status
                        /\ stderr[p][i].body = answers[p][e].body

\* C7: once authenticate has returned a token, auth.json holds the whole body of
\* the authenticate response, with that token; an API request that carries the
\* token is sent only then.
C7_PersistedBeforeUse ==
    \A p \in Procs :
        path[p] = "auth" =>
            /\ authFile = File("file", answers[p].authenticate.body.doc, "all", p)
            /\ JsonLoad(authFile).ok
            /\ JsonLoad(authFile).doc.token = token[p]
            /\ pc[p] = "api_wait" => req[p].bearer = token[p]

\* C7 witness: an API request in flight carries a freshly minted token.
C7_Witness ==
    \E p \in Procs :
        /\ path[p] = "auth"
        /\ pc[p] = "api_wait"
        /\ req[p].bearer = token[p]
        /\ token[p] \in MintTokens

\* C8: a process whose get_token reads auth.json while another process is
\* writing it (empty or partial text) raises no error in the cache check and
\* goes on to authenticate.
C8_TornReadReauthenticates ==
    \A p \in Procs :
        (/\ seen[p].read
         /\ seen[p].file.kind = "file"
         /\ seen[p].file.by \notin {0, p}
         /\ seen[p].file.written \in {"none", "part"}) =>
            /\ exc[p].at # "get_token"
            /\ GetTokenOver(p) => calls[p].authenticate = 1

\* authenticate has returned or raised in the command process p executes.
AuthenticateOver(p) ==
    calls[p].authenticate > 0 /\ pc[p] \in {"got_token", "api_wait", "done"}

\* The challenge endpoint answered 2xx with a nonce that decodes.
ChallengeSucceeded(p) ==
    answers[p].challenge.status \in 200..299 /\ answers[p].challenge.body.kind = "nonce"

\* C9 as stated: a call of authenticate sends exactly one challenge request and
\* at most one authenticate request, exactly one when the challenge succeeds.
C9_ExactlyOneChallenge ==
    \A p \in Procs :
        AuthenticateOver(p) =>
            /\ sent[p].challenge = 1
            /\ sent[p].authenticate <= 1
            /\ ChallengeSucceeded(p) => sent[p].authenticate = 1

\* C9 amended: a call of authenticate sends at most one challenge request,
\* exactly one when the key files load and none otherwise, and at most one
\* authenticate request, exactly one when the challenge succeeds; nothing is
\* sent again after a failure.
C9_AtMostOneEach ==
    \A p \in Procs :
        /\ sent[p].challenge <= 1
        /\ sent[p].authenticate <= 1
        /\ sent[p].authenticate <= sent[p].challenge
        /\ AuthenticateOver(p) =>
            /\ sent[p].challenge =
                 (IF /\ privateKeyFile.exists /\ privateKeyFile.len >= KeyLen
                     /\ publicKeyFile.exists /\ publicKeyFile.pem # 0
                  THEN 1 ELSE 0)
            /\ ChallengeSucceeded(p) => sent[p].authenticate = 1
            /\ exc[p].at = "challenge" => sent[p].authenticate = 0

\* C9 witness: the challenge was rejected and nothing was sent after it.
C9_Witness ==
    \E p \in Procs :
        /\ AuthenticateOver(p)
        /\ exc[p].type = "HTTPError" /\ exc[p].at = "challenge"
        /\ sent[p].challenge = 1 /\ sent[p].authenticate = 0

\* C10: a command calls get_token at most once, runs at most one
\* challenge-response cycle and sends at most one API request; the API request
\* is sent after get_token has returned, and at most one request is in flight.
C10_OneDecisionOneRequest ==
    \A p \in Procs :
        /\ calls[p].get_token <= 1 /\ calls[p].authenticate <= 1
        /\ sent[p].challenge <= 1 /\ sent[p].authenticate <= 1 /\ sent[p].api <= 1
        /\ inflight[p] <= 1
        /\ sent[p].api > 0 => (path[p] # "none" /\ req[p].to = "api" /\ req[p].bearer = token[p])
        /\ pc[p] = "api_wait" => (inflight[p] = 1 /\ sent[p].api = 1)
        /\ pc[p] \in {"idle", "get_token", "open_auth", "authenticate", "save_open",
                      "save_dump", "auth_return", "got_token", "done"} => inflight[p] = 0

\* C10 witness: a command that authenticated and then had its API request
\* answered.
C10_Witness ==
    \E p \in Procs :
        /\ pc[p] = "done" /\ exc[p] = NoExc
        /\ calls[p].get_token = 1
        /\ sent[p] = [challenge |-> 1, authenticate |-> 1, api |-> 1]

\* C11 as stated: when the authenticate endpoint answers with a status that is
\* not a success (not 2xx), the command ends with the error: get_token returns
\* no token, no API request is sent and auth.json is as it was.
C11_NonSuccessAuthenticateAborts ==
    \A p \in Procs :
        (answers[p].authenticate.status > 0 /\ answers[p].authenticate.status \notin 200..299) =>
            /\ pc[p] = "done"
            /\ exc[p].at = "authenticate"
            /\ path[p] = "none" /\ token[p] = EmptyString
            /\ sent[p].api = 0
            /\ authFile = entry[p]

\* C11 amended: when the authenticate endpoint answers with a 4xx or 5xx
\* status, the command ends with HTTPError: get_token returns no token (not
\* the stale cached one either), no API request is sent and auth.json is as it
\* was when authenticate was entered.
C11_RejectedAuthenticateAborts ==
    \A p \in Procs :
        answers[p].authenticate.status \in 400..599 =>
            /\ pc[p] = "done"
            /\ exc[p] = Exc("HTTPError", "authenticate", answers[p].authenticate.status)
            /\ path[p] = "none" /\ token[p] = EmptyString
            /\ sent[p].api = 0
            /\ authFile = entry[p]

\* C11 witness: an API command found a stale credential in auth.json, the
\* authenticate endpoint answered 403 with a credential in the body, and the
\* command ended with the stale credential still on disk.
C11_Witness ==
    \E p \in Procs :
        /\ op[p] \in {"api_get", "api_post", "api_put"}
        /\ answers[p].authenticate.status = 403
        /\ answers[p].authenticate.body.kind = "doc"
        /\ entry[p].kind = "file" /\ entry[p].doc.tok = "str"
        /\ pc[p] = "done" /\ sent[p].api = 0
        /\ authFile = entry[p]

\* private.key cannot be opened or holds fewer than 32 bytes.
PrivateKeyUnusable == ~privateKeyFile.exists \/ privateKeyFile.len < KeyLen

\* C12 as stated: when authenticate is called and private.key or public.pem is
\* missing, unreadable or structurally invalid (a private key that is too
\* short, a public.pem that is no PEM-encoded key), the command fails in
\* load_keys: no challenge and no authenticate request is sent and auth.json
\* is as it was.
C12_BadKeyFilesFailAtLoad ==
    \A p \in Procs :
        (/\ AuthenticateOver(p)
         /\ PrivateKeyUnusable \/ ~publicKeyFile.exists \/ publicKeyFile.pem # 1) =>
            /\ exc[p].at = "load_keys"
            /\ sent[p].challenge = 0 /\ sent[p].authenticate = 0
            /\ authFile = entry[p]

\* C12 amended: when authenticate is called, the command fails in load_keys
\* exactly when private.key cannot be opened or is shorter than 32 bytes, or
\* public.pem cannot be opened or is not text; then no request is sent and
\* auth.json is as it was.  A public.pem whose text is no key loads and is
\* sent in the challenge request.
C12_UnloadableKeysFailAtLoad ==
    \A p \in Procs :
        AuthenticateOver(p) =>
            /\ exc[p].at = "load_keys" <=>
                 (PrivateKeyUnusable \/ ~publicKeyFile.exists \/ publicKeyFile.pem = 0)
            /\ exc[p].at = "load_keys" =>
                 /\ pc[p] = "done"
                 /\ sent[p] = NoSent
                 /\ path[p] = "none"
                 /\ authFile = entry[p]
            /\ exc[p].at # "load_keys" => sent[p].challenge = 1

\* C12 witness: a stale credential is cached, private.key loads, public.pem
\* does not, and the command has failed with nothing sent.
C12_Witness ==
    \E p \in Procs :
        /\ AuthenticateOver(p)
        /\ ~PrivateKeyUnusable
        /\ ~publicKeyFile.exists \/ publicKeyFile.pem = 0
        /\ entry[p].kind = "file" /\ entry[p].doc.tok = "str"
        /\ exc[p].at = "load_keys"
        /\ sent[p] = NoSent
        /\ authFile = entry[p]

\* api_get, api_post or api_put has returned resp.json() to its caller.
ApiReturned(p) ==
    /\ op[p] \in {"api_get", "api_post", "api_put"}
    /\ pc[p] = "done" /\ exc[p] = NoExc
    /\ answers[p].api # NoAnswer

\* C13 as stated: an API call answered with a status that is not a success
\* (not 2xx) raises to its caller; it returns no parsed response and the
\* request is not sent again.
C13_NonSuccessApiPropagates ==
    \A p \in Procs :
        (answers[p].api.status > 0 /\ answers[p].api.status \notin 200..299) =>
            /\ ~ApiReturned(p)
            /\ pc[p] = "done" /\ exc[p].at = "api"
            /\ sent[p].api = 1

\* C13 amended: an API call (api_get, api_post, api_put) answered with a 4xx
\* or 5xx status raises HTTPError to its caller, whatever the body; it returns
\* no parsed response, and the request was sent once.
C13_RejectedApiPropagates ==
    \A p \in Procs :
        /\ answers[p].api.status \in 400..599 =>
            /\ ~ApiReturned(p)
            /\ pc[p] = "done"
            /\ exc[p] = Exc("HTTPError", "api", answers[p].api.status)
            /\ sent[p].api = 1 /\ inflight[p] = 0
        /\ ApiReturned(p) =>
            /\ answers[p].api.status \in 200..399
            /\ answers[p].api.body.kind = "doc"

\* C13 witness: api_get was answered 500 with a body that is JSON, and raised.
C13_Witness ==
    \E p \in Procs :
        /\ op[p] = "api_get"
        /\ answers[p].api = Response(500, BodyDoc(JsonArray))
        /\ pc[p] = "done" /\ exc[p].type = "HTTPError"
        /\ sent[p].api = 1

\* auth.json holds nothing or a part of the text being written.
Torn(f) == f.kind = "file" /\ f.written \in {"none", "part"}

C15_SameDecisionTwice ==
    \A p \in Procs :
        /\ (/\ seen[p].read /\ last.decided
            /\ seen[p].file = last.file /\ seen[p].t = last.t) =>
               /\ Decision(p) = last.decision
               /\ last.decision = "cache" => token[p] = last.token
        /\ path[p] = "cache" => authFile = seen[p].file

\* C15 witness: two commands in a row returned the same cached token from the
\* same file at the same time.
C15_Witness ==
    \E p \in Procs :
        /\ last.decided /\ last.decision = "cache"
        /\ seen[p].read /\ seen[p].file = last.file /\ seen[p].t = last.t
        /\ path[p] = "cache"
        /\ token[p] = last.token /\ token[p] # EmptyString

\* C16: the auth.json a command reads after authenticate saved a response
\* body and returned its token holds that body, member for member; the token
\* read from it is the token authenticate returned, with the same claims.
C16_CacheRoundTrip ==
    \A p \in Procs :
        (seen[p].read /\ last.saved) =>
            /\ seen[p].file.kind = "file"
            /\ JsonLoad(seen[p].file).ok
            /\ JsonLoad(seen[p].file).doc = last.body
            /\ TokenGet(JsonLoad(seen[p].file).doc) = last.returned
            /\ DecodeClaims(TokenGet(JsonLoad(seen[p].file).doc)) = DecodeClaims(last.returned)

\* C16 witness: the previous command authenticated and was given a credential
\* with members besides the token; this command has read it back and returned
\* the token from the cache.
C16_Witness ==
    \E p \in Procs :
        /\ last.saved /\ last.body.more /\ last.returned \in MintTokens
        /\ seen[p].read
        /\ JsonLoad(seen[p].file).doc = last.body
        /\ path[p] = "cache" /\ token[p] = last.returned

\* The step in which process p sends the authenticate request.
SendsAuthenticate(p) == sent'[p].authenticate > sent[p].authenticate

\* The authenticate request process p sends follows its challenge request:
\* the signature is over the nonce of the response just received, and the
\* public key is the one the challenge request carried.
AfterOwnChallenge(p) ==
    /\ pc[p] = "challenge_wait" /\ req[p].to = "challenge"
    /\ sent[p].challenge = 1
    /\ answers'[p].challenge.body.kind = "nonce"
    /\ req'[p].to = "authenticate"
    /\ req'[p].nonce = answers'[p].challenge.body.nonce
    /\ req'[p].public_key = req[p].public_key

\* C17 as stated: the authenticate request is sent only after a successful
\* (2xx) challenge response has been received; its signature is over the nonce
\* of that response and its public key is the one of the challenge request.
C17_AfterSuccessfulChallenge ==
    [][\A p \in Procs :
          SendsAuthenticate(p) =>
             /\ AfterOwnChallenge(p)
             /\ answers'[p].challenge.status \in 200..299]_vars

\* C17 amended: the authenticate request is sent only after a challenge
\* response has been received whose status is not 4xx or 5xx and whose body
\* carries a nonce that decodes; its signature is over the nonce of that
\* response and its public key is the one of the challenge request.
C17_StepsOrdered ==
    [][\A p \in Procs :
          SendsAuthenticate(p) =>
             /\ AfterOwnChallenge(p)
             /\ answers'[p].challenge.status \in 100..399]_vars

\* C17 witness: the authenticate request is in flight; it carries the public
\* key load_keys read and the nonce of the challenge response, answered 200.
C17_Witness ==
    \E p \in Procs :
        /\ pc[p] = "authenticate_wait"
        /\ answers[p].challenge.status = 200
        /\ req[p].to = "authenticate"
        /\ req[p].nonce = answers[p].challenge.body.nonce /\ req[p].nonce >= 1
        /\ req[p].public_key = public_pem[p] /\ req[p].public_key = publicKeyFile.pem

\* Process p is in authenticate between resp.json() and the end of the with
\* block, the place where auth.json is written.
Saving(p) == pc[p] \in {"save_open", "save_dump"}

\* A step changes no key file, and changes auth.json only while a process is
\* saving the body of an authenticate response with a status in statuses.
WritesOnlyAfter(statuses) ==
    /\ privateKeyFile' = privateKeyFile
    /\ publicKeyFile' = publicKeyFile
    /\ authFile' # authFile =>
         \E p \in Procs :
            /\ Saving(p)
            /\ answers[p].authenticate.status \in statuses
            /\ answers[p].authenticate.body.kind = "doc"
            /\ authFile'.doc = JsonDump(answers[p].authenticate.body.doc)

\* An API call leaves auth.json as get_token left it, and the command after
\* one whose API request carried the cached token and was answered 4xx or 5xx
\* returns the same cached token while its exp > now + 120.
ApiLeavesCache ==
    \A p \in Procs :
        /\ (pc[p] \in {"api_wait", "done"} /\ path[p] = "cache") => authFile = seen[p].file
        /\ (/\ seen[p].read /\ last.rejected
            /\ JwtClaims(last.bearer).exp = "number"
            /\ JwtClaims(last.bearer).val > seen[p].t + Margin) =>
               /\ path[p] = "cache"
               /\ token[p] = last.bearer

\* C18 as stated: auth.json changes only in authenticate, after a success
\* (2xx) response of the authenticate endpoint; the API functions leave it
\* alone, so that after a rejected API request the next get_token returns the
\* same cached token while it is valid; the key files are never written.
C18_WrittenAfterSuccessOnly ==
    []ApiLeavesCache /\ [][WritesOnlyAfter(200..299)]_vars

\* C18 amended: auth.json changes only in authenticate, after a response of
\* the authenticate endpoint whose status is not 4xx or 5xx and whose body is
\* JSON; the API functions leave it alone, so that after a rejected API
\* request the next get_token returns the same cached token while it is valid;
\* the key files are never written.
C18_FileWrittenOnlyByAuthenticate ==
    []ApiLeavesCache /\ [][WritesOnlyAfter(100..399)]_vars

\* C18 witness: the previous command's API request carried the cached token
\* and was rejected; this command has returned the same token from the cache.
C18_Witness ==
    \E p \in Procs :
        /\ last.rejected /\ last.bearer # EmptyString
        /\ seen[p].read /\ seen[p].file = authFile
        /\ path[p] = "cache" /\ token[p] = last.bearer

\* C19: with one process, when get_token has returned a token, from the cache
\* or from authenticate, auth.json holds a JSON object whose token member is
\* the returned token, and it still does while the command goes on.
C19_ReturnedTokenIsOnDisk ==
    \A p \in Procs :
        (pc[p] \in {"got_token", "api_wait", "done"} /\ path[p] \in {"cache", "auth"}) =>
            /\ authFile.kind = "file"
            /\ JsonLoad(authFile).ok
            /\ JsonLoad(authFile).doc.t = "object"
            /\ JsonLoad(authFile).doc.tok = "str"
            /\ JsonLoad(authFile).doc.token = token[p]

\* C19 witness: there was no auth.json; get_token has just returned the token
\* authenticate obtained, and the file holds it.
C19_Witness ==
    \E p \in Procs :
        /\ pc[p] = "got_token" /\ path[p] = "auth"
        /\ entry[p].kind = "missing"
        /\ authFile.kind = "file" /\ authFile.doc.token = token[p]
        /\ token[p] \in MintTokens

\* C20: when the cached credential is valid (the claims of its token have
\* exp > now + 120), get_token returns it without loading the key files,
\* whatever state they are in; authenticate loads the key files exactly once.
C20_ValidCacheNeedsNoKeys ==
    \A p \in Procs :
        /\ (GetTokenOver(p) /\ JwtValid(seen[p].file, seen[p].t)) =>
              /\ calls[p].load_keys = 0
              /\ path[p] = "cache"
              /\ exc[p].at \notin {"get_token", "load_keys"}
        /\ calls[p].load_keys = calls[p].authenticate
        /\ calls[p].load_keys <= 1

====
